---- MODULE Spec2Model ----
(***************************************************************************)
(* A model of maize_automation.py: one run of main() fetches a narrative,  *)
(* builds the report document, saves it to the MongoDB collection (upsert  *)
(* by _id, then a 30-day cleanup), sends the rendered WhatsApp message and *)
(* prints the execution summary.  The collection outlives a run; the       *)
(* scheduler starts the next run after the previous one has ended.         *)
(*                                                                         *)
(* Strings the code computes with (timestamps, ids, the formatted numbers  *)
(* of the message) are sequences of one-character strings, so formatting   *)
(* and the string comparison of the cleanup filter are computed, not       *)
(* assumed.  The calendar is kept as a day number: "%Y-%m-%d" is the       *)
(* five-digit day count, which orders dates as the calendar form does.     *)
(***************************************************************************)
EXTENDS Integers, Sequences, FiniteSets, TLC

\* ------------------------------------------------------------- bounds
\* Runs of main() the scheduler starts.
MaxRuns == 3
\* Resolution of the wall clock: distinct instants per second.
TicksPerSecond == 2
\* generate_predictions is tried on base prices 1985 - BaseSpread .. 1985 + BaseSpread.
BaseSpread == 30

\* ------------------------------------------------- program constants
RetentionDays == 30
DefaultBasePrice == 1985
SecondsPerDay == 24 * 60 * 60
MicrosPerSecond == 1000 * 1000
RetentionSeconds == RetentionDays * SecondsPerDay
RetentionTicks == RetentionSeconds * TicksPerSecond

\* ------------------------------------------------------ Python values
\* None, and a str value; `x if live_news else y` tests truthiness.
PyNone == [type |-> "NoneType"]
PyStr(s) == [type |-> "str", value |-> s]
Truthy(v) == v.type = "str" /\ v.value # ""

\* ------------------------------------------------- number formatting
DigitChars == <<"0", "1", "2", "3", "4", "5", "6", "7", "8", "9">>
Digit(d) == DigitChars[d + 1]

RECURSIVE Pad(_, _)
\* strftime's fixed-width, zero-padded field: the w low decimal digits of n.
Pad(n, w) == IF w = 0 THEN <<>> ELSE Pad(n \div 10, w - 1) \o <<Digit(n % 10)>>

RECURSIVE Str(_)
\* f"{n}" for n >= 0: the decimal digits, no padding.
Str(n) == IF n < 10 THEN <<Digit(n)>> ELSE Str(n \div 10) \o <<Digit(n % 10)>>

\* f"{n:+d}": the sign, always, then the digits.
SignedFmt(n) == IF n < 0 THEN <<"-">> \o Str(-n) ELSE <<"+">> \o Str(n)

\* -------------------------------------------------------------- time
\* datetime.now() at clock tick c: whole seconds and microseconds.
datetime_now(c) ==
    [sec |-> c \div TicksPerSecond,
     us |-> (c % TicksPerSecond) * (MicrosPerSecond \div TicksPerSecond)]

\* t - timedelta(days=d)
minus_days(t, d) == [sec |-> t.sec - d * SecondsPerDay, us |-> t.us]
\* t + timedelta(days=d)
plus_days(t, d) == [sec |-> t.sec + d * SecondsPerDay, us |-> t.us]

DayOf(t) == t.sec \div SecondsPerDay
HourOf(t) == (t.sec % SecondsPerDay) \div 3600
MinuteOf(t) == (t.sec % 3600) \div 60
SecondOf(t) == t.sec % 60

\* strftime("%Y-%m-%d")
fmt_date(t) == Pad(DayOf(t), 5)
\* strftime("%H:%M:%S")
fmt_time(t) ==
    Pad(HourOf(t), 2) \o <<":">> \o Pad(MinuteOf(t), 2) \o <<":">> \o Pad(SecondOf(t), 2)
\* strftime("%Y%m%d_%H%M%S"): second granularity, the microseconds are dropped.
fmt_id(t) ==
    Pad(DayOf(t), 5) \o <<"_">> \o Pad(HourOf(t), 2) \o Pad(MinuteOf(t), 2)
        \o Pad(SecondOf(t), 2)
\* datetime.isoformat(): the fraction is written only when it is not zero.
isoformat(t) ==
    fmt_date(t) \o <<"T">> \o fmt_time(t)
        \o (IF t.us = 0 THEN <<>> ELSE <<".">> \o Pad(t.us, 6))

WeekDays ==
    <<"Monday", "Tuesday", "Wednesday", "Thursday", "Friday", "Saturday", "Sunday">>
\* strftime("%A")
fmt_weekday(t) == WeekDays[(DayOf(t) % 7) + 1]

\* The code point of a character of a timestamp string.
Ord(c) ==
    CASE c = "." -> 46
      [] c = ":" -> 58
      [] c = "T" -> 84
      [] c = "_" -> 95
      [] OTHER -> 48 + (CHOOSE d \in 0..9 : Digit(d) = c)

RECURSIVE StrLess(_, _)
\* MongoDB's $lt on two strings: lexicographic, a proper prefix is smaller.
StrLess(a, b) ==
    IF b = <<>> THEN FALSE
    ELSE IF a = <<>> THEN TRUE
    ELSE IF Head(a) = Head(b) THEN StrLess(Tail(a), Tail(b))
    ELSE Ord(Head(a)) < Ord(Head(b))

\* ------------------------------------------------ generate_predictions
changes == <<-15, -20, -25, -25, -20, -15, -10, -5, -5, 0>>

trend(change) == IF change < 0 THEN "down" ELSE IF change > 0 THEN "up" ELSE "stable"

RECURSIVE predictions_loop(_, _, _, _)
\* The for loop over enumerate(changes), from index i on: `current` is the running
\* price, `predictions` the list so far, `today` the clock reading of the call.
predictions_loop(i, current, predictions, today) ==
    IF i >= Len(changes) THEN predictions
    ELSE LET change == changes[i + 1]
             date == plus_days(today, i + 1)
             cur == current + change
         IN predictions_loop(i + 1, cur,
                Append(predictions,
                    [day |-> i + 1,
                     date |-> fmt_date(date),
                     date_formatted |-> Str(DayOf(date)),
                     price |-> cur,
                     change |-> change,
                     trend |-> trend(change)]),
                today)

\* A slip: each point priced from the base price alone, not from the day before.
RECURSIVE flat_loop(_, _, _, _)
flat_loop(i, base_price, predictions, today) ==
    IF i >= Len(changes) THEN predictions
    ELSE flat_loop(i + 1, base_price,
            Append(predictions,
                [day |-> i + 1,
                 date |-> fmt_date(plus_days(today, i + 1)),
                 date_formatted |-> Str(DayOf(plus_days(today, i + 1))),
                 price |-> base_price + changes[i + 1],
                 change |-> changes[i + 1],
                 trend |-> trend(changes[i + 1])]),
            today)
generate_predictions_flat(base_price, today) == flat_loop(0, base_price, <<>>, today)

generate_predictions(base_price, today) ==
    predictions_loop(0, base_price, <<>>, today)

\* ---------------------------------------------- create_structured_data
current_prices ==
    [bihar_avg |-> 1985, purnea |-> 1970, indore |-> 1715, all_india_avg |-> 1950,
     unit |-> "INR/quintal"]

news_items ==
    <<[id |-> 1, title |-> "US Duty-Free Imports Allowed", date |-> "2026-02-11",
       category |-> "All India", impact |-> "down", severity |-> "high",
       explanation_hinglish |->
           "America se makka import bina tax ke ho raha hai. Local prices par heavy pressure padega.",
       price_effect |-> -100],
      [id |-> 2, title |-> "Old Stock Demand Low", date |-> "2026-02-10",
       category |-> "All India", impact |-> "down", severity |-> "medium",
       explanation_hinglish |->
           "Purane makka ki demand kam hai. Traders nayi crop ka wait kar rahe.",
       price_effect |-> -50],
      [id |-> 3, title |-> "Ethanol Demand Strong", date |-> "2026-02-01",
       category |-> "All India", impact |-> "up", severity |-> "medium",
       explanation_hinglish |->
           "125 LMT ethanol target hai. Regular demand support milega.",
       price_effect |-> 30]>>

market_sentiment ==
    [overall |-> "bearish", strength |-> "strong", confidence |-> 85,
     direction |-> "down", emoji |-> "U+1F534"]

\* "2026-02-25", character by character: the message splits it on "-".
buyers_target_date == <<"2", "0", "2", "6", "-", "0", "2", "-", "2", "5">>

recommendations ==
    [buyers |->
        [action |-> "wait",
         action_hinglish |-> "ABHI MAT LO, 2-3 HAFTE WAIT KARO",
         reason |-> "Price expected to drop Rs100-150 more",
         target_price |-> 1900,
         target_date |-> buyers_target_date],
     sellers |->
        [action |-> "sell_if_urgent",
         action_hinglish |-> "URGENT HAI TO ABHI BECH DO",
         reason |-> "Price will decline, better to sell now than wait",
         alternative |-> "Wait till March if can hold"]]

factors ==
    [bearish |-> <<"US imports", "Low old stock demand", "Fresh arrivals">>,
     bullish |-> <<"Ethanol demand", "Poultry industry">>,
     neutral |-> <<"Weather normal">>]

data_sources ==
    <<"Perplexity AI (Live Search)", "Reuters India", "APMC Mandi Data",
      "Commodity Market Reports">>

metadata ==
    [report_version |-> "2.0", automation |-> "github_actions",
     fetch_method |-> "perplexity_sonar_pro", runtime |-> "python_3.11"]

\* The document built at clock reading `timestamp` from the narrative `live_news`.
create_structured_data(live_news, timestamp) ==
    [_id |-> fmt_id(timestamp),
     timestamp |-> isoformat(timestamp),
     date |-> fmt_date(timestamp),
     time |-> fmt_time(timestamp),
     day_of_week |-> fmt_weekday(timestamp),
     current_prices |-> current_prices,
     live_news_raw |-> live_news,
     news_items |-> news_items,
     market_sentiment |-> market_sentiment,
     predictions_10_day |-> generate_predictions(DefaultBasePrice, timestamp),
     recommendations |-> recommendations,
     factors |-> factors,
     data_sources |-> data_sources,
     metadata |-> metadata]

\* ------------------------------------------------- the rendered message
\* str.upper() and str.title() on the words the report holds.
upper(s) ==
    CASE s = "down" -> "DOWN" [] s = "up" -> "UP" [] s = "stable" -> "STABLE"
title(s) ==
    CASE s = "strong" -> "Strong" [] s = "moderate" -> "Moderate" [] s = "weak" -> "Weak"

RECURSIVE split(_, _)
\* s.split(sep) for a one-character separator.
split(s, sep) ==
    IF \A k \in 1..Len(s) : s[k] # sep THEN <<s>>
    ELSE LET k == CHOOSE j \in 1..Len(s) : s[j] = sep /\ \A m \in 1..(j - 1) : s[m] # sep
         IN <<SubSeq(s, 1, k - 1)>> \o split(SubSeq(s, k + 1, Len(s)), sep)

RECURSIVE SumChanges(_, _)
\* sum(p['change'] for p in predictions), over the first n points.
SumChanges(predictions, n) ==
    IF n = 0 THEN 0 ELSE SumChanges(predictions, n - 1) + predictions[n].change

\* f"{v}" of a Python value.
PyFormat(v) == IF v = PyNone THEN <<"None">> ELSE <<v.value>>

\* The values the f-string interpolates, in the order of the template; the text
\* between them is fixed.  Every slot is a sequence of strings.
message_slots(data) ==
    LET predictions == data.predictions_10_day
        final_price == predictions[Len(predictions)].price
        total_change == SumChanges(predictions, Len(predictions))
    IN  <<data.date,
          data.time,
          Str(data.current_prices.bihar_avg),
          Str(data.current_prices.purnea),
          Str(data.current_prices.all_india_avg),
          <<data.market_sentiment.emoji>>,
          <<upper(data.market_sentiment.direction)>>,
          Str(data.market_sentiment.confidence),
          <<title(data.market_sentiment.strength)>>,
          <<data.recommendations.buyers.action_hinglish>>,
          Str(data.recommendations.buyers.target_price),
          split(data.recommendations.buyers.target_date, "-")[3],
          <<data.recommendations.sellers.action_hinglish>>,
          Str(predictions[1].price), SignedFmt(predictions[1].change),
          Str(predictions[5].price), SignedFmt(predictions[5].change),
          Str(final_price), SignedFmt(predictions[10].change),
          SignedFmt(total_change)>>

\* A slip: the message also quotes the narrative.
render_with_narrative(data) == message_slots(data) \o <<PyFormat(data.live_news_raw)>>
\* message = f"""...""" (the f-string of send_to_whatsapp)
render(data) == message_slots(data)

\* ------------------------------------------------------- the collection
\* collection.replace_one({"_id": id}, data, upsert=True): the document with that
\* _id is replaced whole, or data is inserted when there is none.
replace_one_by_timestamp(coll, id, data) ==
    IF \E d \in coll : d.timestamp = data.timestamp
    THEN (coll \ {CHOOSE d \in coll : d.timestamp = data.timestamp}) \cup {data}
    ELSE coll \cup {data}
replace_one(coll, id, data) ==
    IF \E d \in coll : d._id = id
    THEN (coll \ {CHOOSE d \in coll : d._id = id}) \cup {data}
    ELSE coll \cup {data}

\* collection.delete_many({"timestamp": {"$lt": cutoff_iso}}): what is left.
delete_many_lte(coll, cutoff_iso) ==
    {d \in coll : StrLess(cutoff_iso, d.timestamp)}
delete_many(coll, cutoff_iso) ==
    {d \in coll : ~StrLess(d.timestamp, cutoff_iso)}

\* ------------------------------------------------------------- state
VARIABLES
    pc,              \* main's position: the statement to run next
    run,             \* which run of main() this is
    clock,           \* the wall clock, in ticks
    live_news,       \* main's live_news
    structured_data, \* main's structured_data
    mongo_success,   \* main's mongo_success
    whatsapp_success,\* main's whatsapp_success
    summary,         \* what the execution summary printed
    log,             \* the steps main has attempted in this run, in order
    store,           \* the documents of maize_market.daily_reports
    store_before,    \* the collection as save_to_mongodb found it
    store_fault,     \* where the storage failed in save_to_mongodb, if it did
    db_calls,        \* the calls save_to_mongodb made on the client, in order
    conn,            \* the MongoClient of this run: "none", "open" or "closed"
    cutoff,          \* save_to_mongodb's cutoff
    send_fault,      \* how the messaging call failed in send_to_whatsapp, if it did
    message,         \* the message send_to_whatsapp rendered
    built,           \* the document create_structured_data returned
    gen_base,        \* the base price generate_predictions is called with
    gen_result       \* what that call returned

vars ==
    <<pc, run, clock, live_news, structured_data, mongo_success,
      whatsapp_success, summary, log, store, store_before, store_fault, db_calls,
      conn, cutoff, send_fault, message, built, gen_base, gen_result>>

main_vars ==
    <<pc, run, clock, live_news, structured_data, mongo_success,
      whatsapp_success, summary, log, store, store_before, store_fault, db_calls,
      conn, cutoff, send_fault, message, built>>

gen_vars == <<gen_base, gen_result>>

\* ------------------------------------------------------- environment
StartClock == RetentionTicks
\* Time that passes between two runs' readings of the clock in
\* create_structured_data: none, one second, the retention window.
Elapsed == {0, TicksPerSecond, RetentionTicks}
\* Time that passes within a run, between that reading and the one in
\* save_to_mongodb: none, or one tick.
ElapsedInRun == {0, 1}
\* The latest reading create_structured_data takes in the model: one retention
\* window, a second and a tick past the start.
MaxClock == StartClock + RetentionTicks + TicksPerSecond + 1

\* What the search call does: it raises, or it returns the content.
FetchOutcomes ==
    {[fault |-> TRUE, content |-> PyNone]}
        \cup {[fault |-> FALSE, content |-> PyStr(s)] : s \in {"", "news"}}

\* Where the storage fails: nowhere, in MongoClient(), in replace_one, in delete_many.
StoreFaults == {"none", "connect", "upsert", "prune"}

\* How the messaging call fails: not at all, by an error sendMessage raises,
\* by an error response sendMessage returns (the
\* service refusing the chat id, as it does for a missing or invalid recipient).
SendFaults == {"none", "transport", "rejected"}

NoReport == [type |-> "unset"]
NoMessage == <<>>
NoSummary == [type |-> "unset"]
NoTime == [sec |-> 0, us |-> 0]

\* ---------------------------------------------- fetch_live_maize_data
\* try: ... return news_data / except Exception: return None
fetch_live_maize_data(outcome) == IF outcome.fault THEN PyNone ELSE outcome.content

\* -------------------------------------------------- save_to_mongodb
\* The calls of the try block that ran before the fault, if any.
calls_made(fault) ==
    CASE fault = "connect" -> <<"MongoClient">>
      [] fault = "upsert" -> <<"MongoClient", "replace_one">>
      [] fault = "prune" -> <<"MongoClient", "replace_one", "delete_many">>
      [] OTHER -> <<"MongoClient", "replace_one", "delete_many", "close">>

\* The exceptions `except Exception` catches: every storage error.
save_catches(fault) == fault \in {"connect", "upsert", "prune"}

\* return True at the end of the try block, return False in the handler.
save_returns_true_after_upsert(fault) == fault \in {"none", "prune"}
save_returns(fault) == fault = "none"

\* The connection after the call: opened by MongoClient(), closed by client.close().
conn_after(fault) ==
    IF fault = "connect" THEN "none"
    ELSE IF fault = "none" THEN "closed"
    ELSE "open"

\* What the call does to the collection, the client and its own locals.
save_effect(data) ==
    \E fault \in StoreFaults, e \in ElapsedInRun :
        LET reads_clock == fault \in {"none", "prune"}
            now == IF reads_clock THEN clock + e ELSE clock
            new_cutoff == minus_days(datetime_now(now), RetentionDays)
            upserted == replace_one(store, data._id, data)
        IN  /\ store_fault' = fault
            /\ db_calls' = calls_made(fault)
            /\ conn' = conn_after(fault)
            /\ clock' = now
            /\ cutoff' = IF reads_clock THEN new_cutoff ELSE cutoff
            /\ store_before' = store
            /\ store' =
                CASE fault = "none" -> delete_many(upserted, isoformat(new_cutoff))
                  [] fault = "prune" -> upserted
                  [] OTHER -> store
            /\ mongo_success' = save_returns(fault)

\* A slip: the call stamps the caller's document.
save_to_mongodb_stamping(data) ==
    /\ save_effect(data)
    /\ structured_data' = [data EXCEPT !.metadata.runtime = "saved"]
\* The call reads `data`; nothing assigns to it.
save_to_mongodb(data) ==
    /\ save_effect(data)
    /\ structured_data' = data

\* --------------------------------------------------- send_to_whatsapp
\* return True after sendMessage returned (its result is not looked at),
\* return False in the handler.
send_returns(fault) == fault \in {"none", "rejected"}

send_to_whatsapp(data) ==
    \E fault \in SendFaults :
        /\ send_fault' = fault
        /\ message' = render(data)
        /\ whatsapp_success' = send_returns(fault)

\* ----------------------------------------------------------------- main
fetch_label(news) == IF Truthy(news) THEN "Success" ELSE "Fallback"
store_label(ok) == IF ok THEN "Success" ELSE "Failed"
notify_label(ok) == IF ok THEN "Success" ELSE "Failed"

\* if mongo_success and whatsapp_success:
all_tasks_completed_needs_fetch(mongo, whatsapp) == mongo /\ whatsapp /\ Truthy(live_news)
all_tasks_completed(mongo, whatsapp) == mongo /\ whatsapp

\* The statement main runs after save_to_mongodb returned or raised.
after_save_abort_on_failure(fault) ==
    IF save_returns(fault) THEN "send" ELSE "summary"
after_save(fault) == IF fault = "none" \/ save_catches(fault) THEN "send" ELSE "crashed"

Init ==
    /\ pc = "fetch"
    /\ run = 1
    /\ clock = StartClock
    /\ live_news = PyNone
    /\ structured_data = NoReport
    /\ mongo_success = FALSE
    /\ whatsapp_success = FALSE
    /\ summary = NoSummary
    /\ log = <<>>
    /\ store = {}
    /\ store_before = {}
    /\ store_fault = "none"
    /\ db_calls = <<>>
    /\ conn = "none"
    /\ cutoff = NoTime
    /\ send_fault = "none"
    /\ message = NoMessage
    /\ built = NoReport
    /\ gen_base = DefaultBasePrice
    /\ gen_result = <<>>

\* live_news = fetch_live_maize_data()
Step1_fetch ==
    /\ pc = "fetch"
    /\ \E outcome \in FetchOutcomes : live_news' = fetch_live_maize_data(outcome)
    /\ log' = Append(log, "fetch")
    /\ pc' = "build"
    /\ UNCHANGED <<run, clock, structured_data, mongo_success,
                   whatsapp_success, summary, store, store_before, store_fault,
                   db_calls, conn, cutoff, send_fault, message, built, gen_vars>>

\* structured_data = create_structured_data(live_news)
Step2_build ==
    /\ pc = "build"
    /\ \E e \in Elapsed :
        /\ clock + e <= MaxClock
        /\ clock' = clock + e
        /\ structured_data' = create_structured_data(live_news, datetime_now(clock'))
    /\ built' = structured_data'
    /\ log' = Append(log, "build")
    /\ pc' = "save"
    /\ UNCHANGED <<run, live_news, mongo_success, whatsapp_success,
                   summary, store, store_before, store_fault, db_calls, conn, cutoff,
                   send_fault, message, gen_vars>>

\* mongo_success = save_to_mongodb(structured_data)
Step3_save ==
    /\ pc = "save"
    /\ save_to_mongodb(structured_data)
    /\ log' = Append(log, "persist")
    /\ pc' = after_save(store_fault')
    /\ UNCHANGED <<run, live_news, whatsapp_success, summary,
                   send_fault, message, built, gen_vars>>

\* whatsapp_success = send_to_whatsapp(structured_data)
Step4_send ==
    /\ pc = "send"
    /\ send_to_whatsapp(structured_data)
    /\ log' = Append(log, "notify")
    /\ pc' = "summary"
    /\ UNCHANGED <<run, clock, live_news, structured_data,
                   mongo_success, summary, store, store_before, store_fault, db_calls,
                   conn, cutoff, built, gen_vars>>

\* The execution summary and the closing line.
Step5_summary ==
    /\ pc = "summary"
    /\ summary' =
        [fetch |-> fetch_label(live_news),
         store |-> store_label(mongo_success),
         notify |-> notify_label(whatsapp_success),
         overall |-> IF all_tasks_completed(mongo_success, whatsapp_success)
                     THEN "ALL TASKS COMPLETED SUCCESSFULLY!"
                     ELSE "Some tasks failed - check logs above"]
    /\ log' = Append(log, "summary")
    /\ pc' = "done"
    /\ UNCHANGED <<run, clock, live_news, structured_data,
                   mongo_success, whatsapp_success, store, store_before, store_fault,
                   db_calls, conn, cutoff, send_fault, message, built, gen_vars>>

\* The scheduler starts the next run: a new process, the same collection.
NewRun ==
    /\ pc = "done"
    /\ run < MaxRuns
    /\ run' = run + 1
    /\ pc' = "fetch"
    /\ live_news' = PyNone
    /\ structured_data' = NoReport
    /\ mongo_success' = FALSE
    /\ whatsapp_success' = FALSE
    /\ summary' = NoSummary
    /\ log' = <<>>
    /\ store_before' = {}
    /\ store_fault' = "none"
    /\ db_calls' = <<>>
    /\ conn' = "none"
    /\ cutoff' = NoTime
    /\ send_fault' = "none"
    /\ message' = NoMessage
    /\ built' = NoReport
    /\ UNCHANGED <<clock, store, gen_vars>>

Next ==
    \/ Step1_fetch
    \/ Step2_build
    \/ Step3_save
    \/ Step4_send
    \/ Step5_summary
    \/ NewRun

Spec == Init /\ [][Next]_vars

\* ------------------------------ generate_predictions on its own inputs
BasePrices ==
    {0} \cup ((DefaultBasePrice - BaseSpread)..(DefaultBasePrice + BaseSpread))

GenInit ==
    /\ pc = "fetch"
    /\ run = 1
    /\ clock \in {StartClock, StartClock + 1}
    /\ live_news = PyNone
    /\ structured_data = NoReport
    /\ mongo_success = FALSE
    /\ whatsapp_success = FALSE
    /\ summary = NoSummary
    /\ log = <<>>
    /\ store = {}
    /\ store_before = {}
    /\ store_fault = "none"
    /\ db_calls = <<>>
    /\ conn = "none"
    /\ cutoff = NoTime
    /\ send_fault = "none"
    /\ message = NoMessage
    /\ built = NoReport
    /\ gen_base \in BasePrices
    /\ gen_result = <<>>

\* predictions = generate_predictions(base_price)
GenCall ==
    /\ gen_result = <<>>
    /\ gen_result' = generate_predictions(gen_base, datetime_now(clock))
    /\ UNCHANGED <<main_vars, gen_base>>

GenNext == GenCall

SpecGen == GenInit /\ [][GenNext]_vars

\* =====================================================================
\* Properties
\* =====================================================================
StepOrder == <<"fetch", "build", "persist", "notify", "summary">>
AfterBuild == {"save", "send", "summary", "done"}
AfterSave == {"send", "summary", "done"}
AfterSend == {"summary", "done"}
Narratives == {PyNone, PyStr(""), PyStr("news")}
SuccessLine == "ALL TASKS COMPLETED SUCCESSFULLY!"

DigitVal(c) == CHOOSE d \in 0..9 : Digit(d) = c
RECURSIVE ToInt(_)
ToInt(s) == IF s = <<>> THEN 0 ELSE ToInt(SubSeq(s, 1, Len(s) - 1)) * 10 + DigitVal(s[Len(s)])

\* The instant a stored timestamp string denotes.
created_at(d) ==
    LET s == d.timestamp
    IN  [sec |-> ToInt(SubSeq(s, 1, 5)) * SecondsPerDay + ToInt(SubSeq(s, 7, 8)) * 3600
                    + ToInt(SubSeq(s, 10, 11)) * 60 + ToInt(SubSeq(s, 13, 14)),
         us |-> IF Len(s) > 14 THEN ToInt(SubSeq(s, 16, 21)) ELSE 0]

TimeLess(a, b) == a.sec < b.sec \/ (a.sec = b.sec /\ a.us < b.us)

Upserted == store_fault \in {"none", "prune"}

\* ---------------------------------------------------------------- C1
\* C1: in every run the steps are attempted in the order fetch, build, persist,
\* notify, summary, each exactly once; whatever the earlier steps' outcomes, the
\* run is never aborted, and it has ended exactly when the summary is printed.
C1_StepsInOrderNoAbort ==
    /\ pc # "crashed"
    /\ Len(log) <= Len(StepOrder)
    /\ log = SubSeq(StepOrder, 1, Len(log))
    /\ (pc = "fetch") <=> (log = <<>>)
    /\ (pc = "build") <=> (Len(log) = 1)
    /\ (pc = "save") <=> (Len(log) = 2)
    /\ (pc = "send") <=> (Len(log) = 3)
    /\ (pc = "summary") <=> (Len(log) = 4)
    /\ (pc = "done") <=> (log = StepOrder)
    /\ (pc = "done") <=> (summary # NoSummary)

\* A run that ended with the fetch failed, the save failed and the send failed,
\* all five steps attempted.
C1_Witness ==
    /\ pc = "done"
    /\ live_news = PyNone
    /\ ~mongo_success
    /\ ~whatsapp_success
    /\ log = StepOrder

\* ---------------------------------------------------------------- C2
\* C2: at the end of a run the success line is printed exactly when the save and
\* the send both returned true; a run whose fetch failed and whose save and send
\* succeeded prints fetch = Fallback, store = Success, notify = Success and the
\* success line.
C2_OverallIffStoreAndNotify ==
    pc = "done" =>
        /\ (summary.overall = SuccessLine) <=> (mongo_success /\ whatsapp_success)
        /\ summary.store = (IF mongo_success THEN "Success" ELSE "Failed")
        /\ summary.notify = (IF whatsapp_success THEN "Success" ELSE "Failed")
        /\ (live_news = PyNone /\ mongo_success /\ whatsapp_success) =>
                summary = [fetch |-> "Fallback", store |-> "Success",
                           notify |-> "Success", overall |-> SuccessLine]

C2_Witness ==
    /\ pc = "done"
    /\ live_news = PyNone
    /\ mongo_success
    /\ whatsapp_success
    /\ summary.fetch = "Fallback"
    /\ summary.overall = SuccessLine

\* ---------------------------------------------------------------- C3
UniqueIds == \A d1 \in store : \A d2 \in store : d1._id = d2._id => d1 = d2

\* What an upsert leaves: the document under the report's id is the report, whole,
\* and a document under another id is one the collection already held.  The
\* collection changes in no other step, so by induction the document under an id
\* is the report last upserted with it.
UpsertById ==
    (pc \in AfterSave /\ Upserted) =>
        /\ structured_data \in store
        /\ \A d \in store : d._id = structured_data._id => d = structured_data
        /\ \A d \in store : d._id # structured_data._id => d \in store_before

\* The save succeeded on a report the collection already held: the same report
\* persisted again.
Resaved == pc \in AfterSave /\ mongo_success /\ structured_data \in store_before

\* C3 as stated: at most one document per id, the document under an id is the
\* report last persisted with it, and persisting the same report again leaves the
\* collection as it was.
C3_Original ==
    /\ UniqueIds
    /\ UpsertById
    /\ Resaved => store = store_before

\* C3, amended: at most one document per id, the document under an id is the
\* report last persisted with it, and persisting the same report again changes
\* the collection only by the cleanup of that call: what is left is what was
\* there, less the documents older than the new cutoff.
C3_UpsertLastWriteWins ==
    /\ UniqueIds
    /\ UpsertById
    /\ Resaved => store = {d \in store_before : ~TimeLess(created_at(d), cutoff)}

\* The same report persisted a second time, and the second call's cleanup
\* removed a document the first had kept.
C3_Witness == Resaved /\ store # store_before /\ UniqueIds

\* ---------------------------------------------------------------- C4
\* C4: right after a save whose upsert and cleanup both succeeded, no document
\* of the collection is older than the cutoff (now - 30 days), and every document
\* the collection held after the upsert that is not older than the cutoff (one
\* exactly at it, and the report just upserted) is still there, unchanged.
C4_PruneWindow ==
    (pc \in AfterSave /\ store_fault = "none") =>
        /\ cutoff = minus_days(datetime_now(clock), RetentionDays)
        /\ \A d \in store : ~TimeLess(created_at(d), cutoff)
        /\ \A d \in store_before \cup {structured_data} :
                (~TimeLess(created_at(d), cutoff)
                    /\ (d._id = structured_data._id => d = structured_data))
                => d \in store
        /\ structured_data \in store

\* A cleanup that kept a document exactly at the cutoff and removed an older one.
C4_Witness ==
    /\ pc = "send"
    /\ store_fault = "none"
    /\ \E d \in store : created_at(d) = cutoff /\ d # structured_data
    /\ \E d \in store_before : TimeLess(created_at(d), cutoff) /\ d \notin store

\* ---------------------------------------------------------------- C5
\* C5: the save never raises into main and returns false whenever connecting,
\* the upsert or the cleanup failed; the cleanup is attempted only after the
\* upsert succeeded; when the cleanup fails the upserted report stays in the
\* collection and the save still returns false, and the run goes on to notify.
C5_SaveFailureIsFalse ==
    /\ pc # "crashed"
    /\ pc \in AfterSave =>
        /\ store_fault # "none" => ~mongo_success
        /\ store_fault = "none" => mongo_success
        /\ (\E k \in 1..Len(db_calls) : db_calls[k] = "delete_many") =>
                /\ \E k \in 1..Len(db_calls) : db_calls[k] = "replace_one"
                /\ store_fault \notin {"connect", "upsert"}
        /\ store_fault \in {"connect", "upsert"} =>
                /\ store = store_before
                /\ \A k \in 1..Len(db_calls) : db_calls[k] # "delete_many"
        /\ store_fault = "prune" =>
                /\ structured_data \in store
                /\ \A d \in store_before : d._id # structured_data._id => d \in store
    /\ (pc = "done" /\ store_fault # "none") =>
        /\ summary.store = "Failed"
        /\ \E k \in 1..Len(log) : log[k] = "notify"

\* A run that ended after the cleanup failed: the report is stored, the save
\* returned false, the message went out.
C5_Witness ==
    /\ pc = "done"
    /\ store_fault = "prune"
    /\ structured_data \in store
    /\ ~mongo_success
    /\ whatsapp_success
    /\ summary.store = "Failed"

\* ---------------------------------------------------------------- C6
\* C6: no run ends with the store connection it opened still open, whether the
\* upsert and the cleanup succeeded, the upsert failed, or the cleanup failed.
C6_ConnectionClosedAtEnd == pc = "done" => conn # "open"

\* ---------------------------------------------------------------- C7
\* C7: the send never raises into main and returns true only when the message
\* was delivered: an error the messaging call raises and a rejection it reports
\* both give false.
C7_SendTrueOnlyIfDelivered ==
    /\ pc # "crashed"
    /\ pc \in AfterSend => (whatsapp_success => send_fault = "none")

\* ---------------------------------------------------------------- C8
RECURSIVE PrefixSum(_, _)
PrefixSum(D, k) == IF k = 0 THEN 0 ELSE PrefixSum(D, k - 1) + D[k]

\* The part of C8 that holds for every base price: exactly 10 points, days 1..10
\* in order; point k has delta D[k], price B + D[1] + ... + D[k] (the price of
\* the day before plus the delta), and the trend of D[k]'s sign; the total change
\* is the day-10 price less B.
ForecastShape ==
    /\ Len(gen_result) = 10
    /\ Len(changes) = 10
    /\ \A k \in 1..10 :
        /\ gen_result[k].day = k
        /\ gen_result[k].change = changes[k]
        /\ gen_result[k].price = gen_base + PrefixSum(changes, k)
        /\ gen_result[k].price =
                (IF k = 1 THEN gen_base ELSE gen_result[k - 1].price) + changes[k]
        /\ changes[k] < 0 => gen_result[k].trend = "down"
        /\ changes[k] > 0 => gen_result[k].trend = "up"
        /\ changes[k] = 0 => gen_result[k].trend = "stable"
    /\ SumChanges(gen_result, 10) = gen_result[10].price - gen_base

\* C8 as stated: the shape above, and for B = 1985 the day-1 price is 1970, the
\* day-10 price 1835, and the total change the message shows is -150.
C8_Original ==
    gen_result # <<>> =>
        /\ ForecastShape
        /\ gen_base = 1985 =>
            /\ gen_result[1].price = 1970
            /\ gen_result[10].price = 1835
            /\ SignedFmt(SumChanges(gen_result, 10)) = <<"-", "1", "5", "0">>

\* C8, amended: the shape above, and for B = 1985 the day-1 price is 1970, the
\* day-10 price 1845, and the total change the message shows is -140: the
\* schedule sums to -140.
C8_CumulativeForecast ==
    gen_result # <<>> =>
        /\ ForecastShape
        /\ gen_base = 1985 =>
            /\ gen_result[1].price = 1970
            /\ gen_result[10].price = 1845
            /\ SignedFmt(SumChanges(gen_result, 10)) = <<"-", "1", "4", "0">>

\* The call returned for the base price 1985.
C8_Witness ==
    /\ gen_base = 1985
    /\ gen_result # <<>>
    /\ gen_result[1].price = 1970
    /\ gen_result[10].trend = "stable"

\* ---------------------------------------------------------------- C9
MandatoryFields ==
    {"_id", "timestamp", "date", "time", "day_of_week", "current_prices",
     "live_news_raw", "news_items", "market_sentiment", "predictions_10_day",
     "recommendations", "factors", "data_sources", "metadata"}

\* C9: whatever the narrative (a text, None, the empty string) the report is
\* built, carries that narrative and every other field; the message rendered
\* from it is the message any other narrative would have given, and never shows
\* None.
C9_RenderIgnoresNarrative ==
    /\ pc \in AfterBuild =>
        /\ live_news \in Narratives
        /\ DOMAIN structured_data = MandatoryFields
        /\ structured_data.live_news_raw = live_news
        /\ Len(structured_data.predictions_10_day) = 10
        /\ structured_data._id # <<>> /\ structured_data.timestamp # <<>>
    /\ pc \in AfterSend => message # NoMessage
    /\ pc = "summary" =>
        /\ \A n \in Narratives \ {live_news} :
                message = render([structured_data EXCEPT !.live_news_raw = n])
        /\ \A k \in 1..Len(message) : message[k] # <<"None">> /\ message[k] # <<>>

\* A message rendered in a run whose fetch failed.
C9_Witness ==
    /\ pc = "summary"
    /\ live_news = PyNone
    /\ structured_data.live_news_raw = PyNone
    /\ message # NoMessage

\* --------------------------------------------------------------- C10
\* C10: the report is built once in a run; the save and the send leave it as it
\* was built, whether they succeed or fail, so what is stored and what is
\* rendered is the report create_structured_data returned.
C10_ReportUnchanged ==
    /\ pc \in AfterBuild =>
        /\ structured_data = built
        /\ Cardinality({k \in 1..Len(log) : log[k] = "build"}) = 1
    /\ (pc \in AfterSave /\ Upserted) => built \in store
    /\ pc = "summary" => message = message_slots(built)

\* A run in which the upsert failed and the send failed, the report still as built.
C10_Witness ==
    /\ pc = "done"
    /\ store_fault = "upsert"
    /\ send_fault = "transport"
    /\ structured_data = built
    /\ built # NoReport

====
